---- MODULE Spec2Model ----
(***************************************************************************)
(* The staged-features record of src/src/lib.rs: a two-generation          *)
(* (current / next) store of feature ids, rolled over by maybe_update and  *)
(* appended to by stage_feature, driven by the two simulated instructions. *)
(*                                                                         *)
(* Two specifications share the variables:                                 *)
(*   Spec     the instructions of the simulated program, run from the      *)
(*            genesis context of the test under a clock that never         *)
(*            decreases;                                                   *)
(*   SpecApi  the two public methods of StagedFeatures called directly,    *)
(*            with any argument, from the genesis store.                   *)
(***************************************************************************)
EXTENDS Integers, Sequences, FiniteSets

\* ---------------------------------------------------------------- bounds

\* The epochs are u64 in the source.  The model keeps the shape of the type
\* (a finite range 0..U64_MAX whose successor overflows at the top) on a
\* range TLC can enumerate.
U64_MAX == 3

\* ------------------------------------------------------ program constants

\* [Pubkey; 8]
N == 8

\* Pubkey::default(), the empty-slot sentinel.
Default == 0

\* A key made by Pubkey::new_unique(), as the test stages it.  The methods
\* only ever compare a key with Pubkey::default(), so every other key takes
\* the same path through them.
mock_feature_id_epoch_1 == 1

Epochs == 0..U64_MAX
Pubkeys == {Default, mock_feature_id_epoch_1}
Slots == 1..N

\* _bitmask: u8; the values the instruction is tried with.
Bitmasks == {0, 1, 255}

\* [Pubkey::default(); 8]
NoFeatures == [i \in Slots |-> Default]

VARIABLES
    clock_sysvar_epoch,   \* SimulatedProgramContext.clock_sysvar_epoch
    staged_features_pda,  \* SimulatedProgramContext.staged_features_pda
    overflow_checks,      \* build profile: does u64 `+` panic on overflow (TRUE) or wrap (FALSE)
    panicked,             \* the last call panicked; the program has stopped
    pre,                  \* the store as the last call or instruction found it
    mid,                  \* the store between the two calls of the last instruction
    last,                 \* the last call or instruction: its arguments and its result
    staged_calls,         \* successful stage_feature calls since the last rollover (saturates at N+1)
    staged_ids,           \* those of them that carried a non-default id
    promoted_from,        \* the value next_features held in the state the last rollover started from
    staged_for,           \* per slot of next_features: the target_epoch of the call that wrote it
    current_for,          \* per slot of current_features: the same, promoted with the slot
    promoted_at           \* the epoch maybe_update was given when it promoted current_features

vars == << clock_sysvar_epoch, staged_features_pda, overflow_checks, panicked,
           pre, mid, last, staged_calls, staged_ids,
           promoted_from, staged_for, current_for, promoted_at >>

\* ------------------------------------------------------------ the methods

\* The slots of a feature set that hold Pubkey::default().
EmptySlots(features) == { i \in Slots : features[i] = Default }

\* The slot the loop of stage_feature stops at: the first one, in iteration
\* order, that holds Pubkey::default().
FirstEmpty(features) ==
    CHOOSE i \in EmptySlots(features) : \A j \in EmptySlots(features) : i <= j

\* maybe_update with the comparison off by one: it rolls over one epoch early.
maybe_update_early(self, current_epoch, checked) ==
    IF current_epoch + 1 >= self.next_epoch
    THEN [pda |-> [self EXCEPT !.current_epoch = self.next_epoch,
                               !.current_features = self.next_features,
                               !.next_epoch = (current_epoch + 1) % (U64_MAX + 1),
                               !.next_features = NoFeatures],
          rolled |-> TRUE, panic |-> FALSE]
    ELSE [pda |-> self, rolled |-> FALSE, panic |-> FALSE]

\* maybe_update labelling the promoted generation with the epoch it was
\* given instead of next_epoch.
maybe_update_label(self, current_epoch, checked) ==
    IF current_epoch >= self.next_epoch
    THEN LET promoted == [self EXCEPT !.current_epoch = current_epoch,
                                      !.current_features = self.next_features]
         IN  IF current_epoch = U64_MAX /\ checked
             THEN [pda |-> promoted, rolled |-> TRUE, panic |-> TRUE]
             ELSE [pda |-> [promoted EXCEPT
                               !.next_epoch = (current_epoch + 1) % (U64_MAX + 1),
                               !.next_features = NoFeatures],
                   rolled |-> TRUE, panic |-> FALSE]
    ELSE [pda |-> self, rolled |-> FALSE, panic |-> FALSE]

\* maybe_update merging the staged ids into current_features instead of
\* replacing it: a slot next_features leaves empty keeps its current id.
maybe_update_merge(self, current_epoch, checked) ==
    IF current_epoch >= self.next_epoch
    THEN LET promoted ==
                 [self EXCEPT !.current_epoch = self.next_epoch,
                              !.current_features =
                                  [i \in Slots |->
                                      IF self.next_features[i] # Default
                                      THEN self.next_features[i]
                                      ELSE self.current_features[i]]]
         IN  IF current_epoch = U64_MAX /\ checked
             THEN [pda |-> promoted, rolled |-> TRUE, panic |-> TRUE]
             ELSE [pda |-> [promoted EXCEPT
                               !.next_epoch = (current_epoch + 1) % (U64_MAX + 1),
                               !.next_features = NoFeatures],
                   rolled |-> TRUE, panic |-> FALSE]
    ELSE [pda |-> self, rolled |-> FALSE, panic |-> FALSE]

\* StagedFeatures::maybe_update(&mut self, current_epoch).  The assignments
\* run in source order; `current_epoch + 1` overflows at u64::MAX, where a
\* build with overflow checks panics (the two assignments before it are
\* done, the two from it on are not) and a build without them wraps to 0.
maybe_update(self, current_epoch, checked) ==
    IF current_epoch >= self.next_epoch
    THEN LET promoted == [self EXCEPT !.current_epoch = self.next_epoch,
                                      !.current_features = self.next_features]
         IN  IF current_epoch = U64_MAX /\ checked
             THEN [pda |-> promoted, rolled |-> TRUE, panic |-> TRUE]
             ELSE [pda |-> [promoted EXCEPT
                               !.next_epoch = (current_epoch + 1) % (U64_MAX + 1),
                               !.next_features = NoFeatures],
                   rolled |-> TRUE, panic |-> FALSE]
    ELSE [pda |-> self, rolled |-> FALSE, panic |-> FALSE]

\* stage_feature refusing an id that a slot already holds.
stage_feature_dedup(self, target_epoch, feature_id) ==
    IF target_epoch # self.next_epoch
    THEN [pda |-> self, result |-> "InvalidArgument"]
    ELSE IF /\ EmptySlots(self.next_features) # {}
            /\ \A i \in Slots : self.next_features[i] # feature_id
         THEN [pda |-> [self EXCEPT
                           !.next_features[FirstEmpty(self.next_features)] = feature_id],
               result |-> "Ok"]
         ELSE [pda |-> self, result |-> "InvalidArgument"]

\* stage_feature returning another ProgramError for a full set.
stage_feature_full_kind(self, target_epoch, feature_id) ==
    IF target_epoch # self.next_epoch
    THEN [pda |-> self, result |-> "InvalidArgument"]
    ELSE IF EmptySlots(self.next_features) # {}
         THEN [pda |-> [self EXCEPT
                           !.next_features[FirstEmpty(self.next_features)] = feature_id],
               result |-> "Ok"]
         ELSE [pda |-> self, result |-> "AccountDataTooSmall"]

\* stage_feature iterating the slots in reverse: it fills the highest-indexed
\* empty slot.
stage_feature_rev(self, target_epoch, feature_id) ==
    IF target_epoch # self.next_epoch
    THEN [pda |-> self, result |-> "InvalidArgument"]
    ELSE IF EmptySlots(self.next_features) # {}
         THEN [pda |-> [self EXCEPT
                           !.next_features[CHOOSE i \in EmptySlots(self.next_features) :
                               \A j \in EmptySlots(self.next_features) : i >= j] = feature_id],
               result |-> "Ok"]
         ELSE [pda |-> self, result |-> "InvalidArgument"]

\* stage_feature overwriting the last slot of a full set instead of failing.
stage_feature_overwrite(self, target_epoch, feature_id) ==
    IF target_epoch # self.next_epoch
    THEN [pda |-> self, result |-> "InvalidArgument"]
    ELSE IF EmptySlots(self.next_features) # {}
         THEN [pda |-> [self EXCEPT
                           !.next_features[FirstEmpty(self.next_features)] = feature_id],
               result |-> "Ok"]
         ELSE [pda |-> [self EXCEPT !.next_features[N] = feature_id],
               result |-> "Ok"]

\* stage_feature scanning and writing current_features instead of
\* next_features.
stage_feature_current(self, target_epoch, feature_id) ==
    IF target_epoch # self.next_epoch
    THEN [pda |-> self, result |-> "InvalidArgument"]
    ELSE IF EmptySlots(self.current_features) # {}
         THEN [pda |-> [self EXCEPT
                           !.current_features[FirstEmpty(self.current_features)] = feature_id],
               result |-> "Ok"]
         ELSE [pda |-> self, result |-> "InvalidArgument"]

\* stage_feature refusing Pubkey::default() as a feature id.
stage_feature_validate(self, target_epoch, feature_id) ==
    IF target_epoch # self.next_epoch \/ feature_id = Default
    THEN [pda |-> self, result |-> "InvalidArgument"]
    ELSE IF EmptySlots(self.next_features) # {}
         THEN [pda |-> [self EXCEPT
                           !.next_features[FirstEmpty(self.next_features)] = feature_id],
               result |-> "Ok"]
         ELSE [pda |-> self, result |-> "InvalidArgument"]

\* stage_feature writing the slot before it checks the target epoch.
stage_feature_write_first(self, target_epoch, feature_id) ==
    LET written == IF EmptySlots(self.next_features) # {}
                   THEN [self EXCEPT
                           !.next_features[FirstEmpty(self.next_features)] = feature_id]
                   ELSE self
    IN  IF target_epoch # self.next_epoch
        THEN [pda |-> written, result |-> "InvalidArgument"]
        ELSE IF EmptySlots(self.next_features) # {}
             THEN [pda |-> written, result |-> "Ok"]
             ELSE [pda |-> self, result |-> "InvalidArgument"]

\* StagedFeatures::stage_feature(&mut self, target_epoch, feature_id).  Both
\* failures return Err(ProgramError::InvalidArgument).
stage_feature(self, target_epoch, feature_id) ==
    IF target_epoch # self.next_epoch
    THEN [pda |-> self, result |-> "InvalidArgument"]
    ELSE IF EmptySlots(self.next_features) # {}
         THEN [pda |-> [self EXCEPT
                           !.next_features[FirstEmpty(self.next_features)] = feature_id],
               result |-> "Ok"]
         ELSE [pda |-> self, result |-> "InvalidArgument"]

\* ------------------------------------------------------------------ state

\* The store the test constructs.
Genesis ==
    [current_epoch |-> 0, current_features |-> NoFeatures,
     next_epoch |-> 1, next_features |-> NoFeatures]

\* No slot has been written by a stage_feature call.
NoTargets == [i \in Slots |-> {}]

NoCall ==
    [op |-> "none", epoch |-> 0, feature_id |-> Default, bitmask |-> 0,
     result |-> "Ok", rolled |-> FALSE, repeat |-> FALSE,
     calls_before |-> 0, ids_before |-> 0]

Init ==
    /\ clock_sysvar_epoch = 0
    /\ staged_features_pda = Genesis
    /\ overflow_checks \in BOOLEAN
    /\ panicked = FALSE
    /\ pre = Genesis
    /\ mid = Genesis
    /\ last = NoCall
    /\ staged_calls = 0
    /\ staged_ids = 0
    /\ promoted_from = {}
    /\ staged_for = NoTargets
    /\ current_for = NoTargets
    /\ promoted_at = {}

\* The counters after a stage_feature call that found them at `calls`, `ids`.
CountCall(calls, result) ==
    IF result = "Ok" /\ calls <= N THEN calls + 1 ELSE calls

CountId(ids, result, feature_id) ==
    IF result = "Ok" /\ feature_id # Default THEN ids + 1 ELSE ids

\* A rollover that ran to its end (it cleared next_features).
Cleared(u) == u.rolled /\ ~u.panic

\* The record of the last steps: what maybe_update result `u`, given epoch
\* `epoch`, does to the bookkeeping of the slots.
TrackUpdate(u, epoch) ==
    /\ promoted_from' = IF u.rolled THEN {staged_features_pda.next_features}
                        ELSE promoted_from
    /\ current_for' = IF u.rolled THEN staged_for ELSE current_for
    /\ promoted_at' = IF u.rolled THEN {epoch} ELSE promoted_at

\* The slots a stage_feature call changed, marked with its target_epoch.
MarkWritten(targets, before, after, target_epoch) ==
    [i \in Slots |-> IF after[i] # before[i] THEN {target_epoch} ELSE targets[i]]

\* ----------------------------------------------------- direct method calls

MaybeUpdate(wall_epoch) ==
    LET u == maybe_update(staged_features_pda, wall_epoch, overflow_checks) IN
    /\ ~panicked
    /\ staged_features_pda' = u.pda
    /\ panicked' = u.panic
    /\ pre' = staged_features_pda
    /\ mid' = u.pda
    /\ last' = [NoCall EXCEPT !.op = "maybe_update", !.epoch = wall_epoch,
                              !.result = IF u.panic THEN "panic" ELSE "Ok",
                              !.rolled = u.rolled,
                              !.repeat = (last.op = "maybe_update" /\ last.epoch = wall_epoch),
                              !.calls_before = staged_calls,
                              !.ids_before = staged_ids]
    /\ staged_calls' = IF Cleared(u) THEN 0 ELSE staged_calls
    /\ staged_ids' = IF Cleared(u) THEN 0 ELSE staged_ids
    /\ TrackUpdate(u, wall_epoch)
    /\ staged_for' = IF Cleared(u) THEN NoTargets ELSE staged_for
    /\ UNCHANGED << clock_sysvar_epoch, overflow_checks >>

StageFeature(target_epoch, feature_id) ==
    LET s == stage_feature(staged_features_pda, target_epoch, feature_id) IN
    /\ ~panicked
    /\ staged_features_pda' = s.pda
    /\ pre' = staged_features_pda
    /\ mid' = staged_features_pda
    /\ last' = [NoCall EXCEPT !.op = "stage_feature", !.epoch = target_epoch,
                              !.feature_id = feature_id, !.result = s.result,
                              !.calls_before = staged_calls,
                              !.ids_before = staged_ids]
    /\ staged_calls' = CountCall(staged_calls, s.result)
    /\ staged_ids' = CountId(staged_ids, s.result, feature_id)
    /\ staged_for' = MarkWritten(staged_for, staged_features_pda.next_features,
                                 s.pda.next_features, target_epoch)
    /\ UNCHANGED << clock_sysvar_epoch, overflow_checks, panicked,
                    promoted_from, current_for, promoted_at >>

\* ------------------------------------------------------- the instructions

\* context.clock_sysvar_epoch = e, as the test moves the epoch forward.
SetClock(e) ==
    /\ ~panicked
    /\ e > clock_sysvar_epoch
    /\ clock_sysvar_epoch' = e
    /\ pre' = staged_features_pda
    /\ mid' = staged_features_pda
    /\ last' = [NoCall EXCEPT !.op = "set_clock", !.epoch = e,
                              !.calls_before = staged_calls,
                              !.ids_before = staged_ids]
    /\ UNCHANGED << staged_features_pda, overflow_checks, panicked,
                    staged_calls, staged_ids,
                    promoted_from, staged_for, current_for, promoted_at >>

\* simulate_stage_feature_instruction: maybe_update(clock), then
\* stage_feature(target_epoch, feature_id)?.  A panic in maybe_update ends
\* the instruction there.
StageFeatureInstruction(target_epoch, feature_id) ==
    LET u == maybe_update(staged_features_pda, clock_sysvar_epoch, overflow_checks)
        s == stage_feature(u.pda, target_epoch, feature_id)
        calls == IF Cleared(u) THEN 0 ELSE staged_calls
        ids == IF Cleared(u) THEN 0 ELSE staged_ids
        targets == IF Cleared(u) THEN NoTargets ELSE staged_for
    IN
    /\ ~panicked
    /\ pre' = staged_features_pda
    /\ mid' = u.pda
    /\ panicked' = u.panic
    /\ staged_features_pda' = IF u.panic THEN u.pda ELSE s.pda
    /\ last' = [NoCall EXCEPT !.op = "stage_feature_instruction",
                              !.epoch = target_epoch,
                              !.feature_id = feature_id,
                              !.result = IF u.panic THEN "panic" ELSE s.result,
                              !.rolled = u.rolled,
                              !.calls_before = calls,
                              !.ids_before = ids]
    /\ staged_calls' = IF u.panic THEN calls ELSE CountCall(calls, s.result)
    /\ staged_ids' = IF u.panic THEN ids ELSE CountId(ids, s.result, feature_id)
    /\ TrackUpdate(u, clock_sysvar_epoch)
    /\ staged_for' = IF u.panic THEN targets
                     ELSE MarkWritten(targets, u.pda.next_features,
                                      s.pda.next_features, target_epoch)
    /\ UNCHANGED << clock_sysvar_epoch, overflow_checks >>

\* simulate_signal_support_instruction: maybe_update(clock), then Ok(()).
SignalSupportInstruction(bitmask) ==
    LET u == maybe_update(staged_features_pda, clock_sysvar_epoch, overflow_checks) IN
    /\ ~panicked
    /\ pre' = staged_features_pda
    /\ mid' = u.pda
    /\ panicked' = u.panic
    /\ staged_features_pda' = u.pda
    /\ last' = [NoCall EXCEPT !.op = "signal_support_instruction",
                              !.bitmask = bitmask,
                              !.result = IF u.panic THEN "panic" ELSE "Ok",
                              !.rolled = u.rolled,
                              !.calls_before = staged_calls,
                              !.ids_before = staged_ids]
    /\ staged_calls' = IF Cleared(u) THEN 0 ELSE staged_calls
    /\ staged_ids' = IF Cleared(u) THEN 0 ELSE staged_ids
    /\ TrackUpdate(u, clock_sysvar_epoch)
    /\ staged_for' = IF Cleared(u) THEN NoTargets ELSE staged_for
    /\ UNCHANGED << clock_sysvar_epoch, overflow_checks >>

Next ==
    \/ \E e \in Epochs : SetClock(e)
    \/ \E t \in Epochs, id \in Pubkeys : StageFeatureInstruction(t, id)
    \/ \E b \in Bitmasks : SignalSupportInstruction(b)

Spec == Init /\ [][Next]_vars

NextApi ==
    \/ \E w \in Epochs : MaybeUpdate(w)
    \/ \E t \in Epochs, id \in Pubkeys : StageFeature(t, id)

SpecApi == Init /\ [][NextApi]_vars

\* ----------------------------------------------------------------- claims

CallWas(op) == last.op = op

\* C1: in every state the instructions reach from genesis under a clock
\* that never decreases, next_epoch is strictly greater than current_epoch.
C1_NextEpochAboveCurrent ==
    staged_features_pda.next_epoch > staged_features_pda.current_epoch

\* C2: a maybe_update(wall_epoch) with wall_epoch >= next_epoch completes one
\* rollover: current_epoch is the prior next_epoch, current_features the
\* prior next_features, next_epoch is wall_epoch + 1 and next_features is
\* all-empty.
C2_RolloverResult ==
    (CallWas("maybe_update") /\ last.epoch >= pre.next_epoch) =>
        /\ last.result = "Ok"
        /\ staged_features_pda.current_epoch = pre.next_epoch
        /\ staged_features_pda.current_features = pre.next_features
        /\ staged_features_pda.next_epoch = last.epoch + 1
        /\ staged_features_pda.next_features = NoFeatures

\* C3: a maybe_update(wall_epoch) with wall_epoch < next_epoch leaves all
\* four fields of the store unchanged.
C3_NoRolloverNoChange ==
    (CallWas("maybe_update") /\ last.epoch < pre.next_epoch) =>
        /\ last.result = "Ok"
        /\ staged_features_pda = pre

\* A maybe_update below next_epoch has run on a store that has a feature
\* staged and a generation already promoted.
C3_Witness ==
    /\ CallWas("maybe_update")
    /\ last.epoch < pre.next_epoch
    /\ pre.next_features # NoFeatures
    /\ pre.current_features # NoFeatures

\* C4: maybe_update is idempotent per epoch: the second of two consecutive
\* maybe_update calls with the same wall_epoch leaves the store as the first
\* one left it.
C4_Idempotent ==
    (CallWas("maybe_update") /\ last.repeat) =>
        /\ last.result = "Ok"
        /\ staged_features_pda = pre

\* ---- stage_feature, called directly (SpecApi)

HasEmptySlot(features) == \E i \in Slots : features[i] = Default

StageAccepted == last.result = "Ok"

\* C5: for a non-sentinel feature_id, stage_feature succeeds if and only if
\* target_epoch = next_epoch and next_features has an empty slot, whether or
\* not feature_id already occupies a slot; a failing call leaves the store
\* unchanged.
C5_StageSucceedsIff ==
    (CallWas("stage_feature") /\ last.feature_id # Default) =>
        /\ StageAccepted <=>
              (last.epoch = pre.next_epoch /\ HasEmptySlot(pre.next_features))
        /\ ~StageAccepted => staged_features_pda = pre

\* A stage_feature call has succeeded with an id that was already in a slot.
C5_Witness ==
    /\ CallWas("stage_feature")
    /\ last.feature_id # Default
    /\ StageAccepted
    /\ \E i \in Slots : pre.next_features[i] = last.feature_id

\* C6 as claimed: the two failure causes come back as two distinct error
\* kinds, InvalidTargetEpoch for a target_epoch other than next_epoch (also
\* when the set is full as well) and StoreFull for a full next_features.
C6_DistinctErrorKinds ==
    CallWas("stage_feature") =>
        /\ last.epoch # pre.next_epoch => last.result = "InvalidTargetEpoch"
        /\ (last.epoch = pre.next_epoch /\ ~HasEmptySlot(pre.next_features))
              => last.result = "StoreFull"

\* C6 as amended: both failure causes come back as the one error kind
\* InvalidArgument, so the returned error does not tell them apart; a call
\* with neither cause returns Ok.
C6_OneErrorKind ==
    CallWas("stage_feature") =>
        /\ last.epoch # pre.next_epoch => last.result = "InvalidArgument"
        /\ (last.epoch = pre.next_epoch /\ ~HasEmptySlot(pre.next_features))
              => last.result = "InvalidArgument"
        /\ (last.epoch = pre.next_epoch /\ HasEmptySlot(pre.next_features))
              => last.result = "Ok"

\* A stage_feature call for next_epoch has failed on a full next_features.
C6_Witness ==
    /\ CallWas("stage_feature")
    /\ last.epoch = pre.next_epoch
    /\ ~HasEmptySlot(pre.next_features)
    /\ last.result = "InvalidArgument"

\* C7: a successful stage_feature writes feature_id into the lowest-indexed
\* empty slot of next_features and changes nothing else.
C7_WritesLowestEmptySlot ==
    (CallWas("stage_feature") /\ StageAccepted) =>
        \E i \in Slots :
            /\ pre.next_features[i] = Default
            /\ \A j \in 1..(i - 1) : pre.next_features[j] # Default
            /\ staged_features_pda.next_features[i] = last.feature_id
            /\ \A j \in Slots \ {i} :
                  staged_features_pda.next_features[j] = pre.next_features[j]
            /\ staged_features_pda.next_epoch = pre.next_epoch
            /\ staged_features_pda.current_epoch = pre.current_epoch
            /\ staged_features_pda.current_features = pre.current_features

\* A stage_feature call has written an id behind ids staged before it, on a
\* store that holds a promoted generation.
C7_Witness ==
    /\ CallWas("stage_feature")
    /\ StageAccepted
    /\ last.feature_id # Default
    /\ pre.next_features[1] # Default
    /\ pre.next_features[2] # Default
    /\ pre.next_features[3] = Default
    /\ staged_features_pda.next_features[3] = last.feature_id
    /\ pre.current_features # NoFeatures

\* C8 as claimed: after 8 successful stage_feature calls against the same
\* next_epoch, with no rollover in between, a 9th call for that epoch fails
\* and leaves the store unchanged.
C8_NinthCallFails ==
    (CallWas("stage_feature") /\ last.calls_before = N
        /\ last.epoch = pre.next_epoch) =>
        /\ ~StageAccepted
        /\ staged_features_pda = pre

\* C8 as amended: the capacity is 8 ids per generation.  After 8 successful
\* stage_feature calls that carried a non-sentinel id, every further call
\* for that epoch fails and leaves the store unchanged; before that, a call
\* for next_epoch succeeds.
C8_CapacityEightIds ==
    /\ staged_ids <= N
    /\ (CallWas("stage_feature") /\ last.epoch = pre.next_epoch) =>
          IF last.ids_before = N
          THEN ~StageAccepted /\ staged_features_pda = pre
          ELSE StageAccepted

\* A ninth id has been refused after eight were staged for the same epoch.
C8_Witness ==
    /\ CallWas("stage_feature")
    /\ last.epoch = pre.next_epoch
    /\ last.feature_id # Default
    /\ last.ids_before = N
    /\ ~StageAccepted

\* ---- the instructions (Spec)

StageInstructionFailed ==
    CallWas("stage_feature_instruction") /\ last.result = "InvalidArgument"

\* C9 as claimed: whenever the stage-feature instruction returns an error,
\* the store is exactly as it was before the instruction was invoked.
C9_FailedInstructionChangesNothing ==
    StageInstructionFailed => staged_features_pda = pre

\* C9 as amended: whenever the stage-feature instruction returns an error,
\* the store is exactly as the instruction's maybe_update(clock epoch) left
\* it: unchanged when the clock epoch is below the prior next_epoch, and
\* otherwise rolled over (the prior next generation is current and
\* next_features is all-empty); the failed stage_feature writes no slot.
C9_FailedInstructionOnlyRollsOver ==
    StageInstructionFailed =>
        /\ staged_features_pda = mid
        /\ IF clock_sysvar_epoch < pre.next_epoch
           THEN staged_features_pda = pre
           ELSE /\ staged_features_pda.current_epoch = pre.next_epoch
                /\ staged_features_pda.current_features = pre.next_features
                /\ staged_features_pda.next_features = NoFeatures
                /\ clock_sysvar_epoch < U64_MAX =>
                      staged_features_pda.next_epoch = clock_sysvar_epoch + 1

\* A stage-feature instruction has failed after rolling over a generation
\* that had features staged.
C9_Witness ==
    /\ StageInstructionFailed
    /\ last.rolled
    /\ pre.next_features # NoFeatures
    /\ staged_features_pda # pre

\* C10: the signal-support instruction always returns success, whatever the
\* bitmask, and leaves the store as maybe_update(clock epoch) makes it from
\* the store before the instruction: when the clock epoch has reached
\* next_epoch, the staged generation is current.
C10_SignalSupportRollsOver ==
    CallWas("signal_support_instruction") =>
        /\ last.result = "Ok"
        /\ staged_features_pda =
              maybe_update(pre, clock_sysvar_epoch, overflow_checks).pda
        /\ clock_sysvar_epoch >= pre.next_epoch =>
              /\ staged_features_pda.current_epoch = pre.next_epoch
              /\ staged_features_pda.current_features = pre.next_features

\* ---- generations (Spec)

InstructionWas ==
    CallWas("stage_feature_instruction") \/ CallWas("signal_support_instruction")

\* C11: current_features is the all-empty set of genesis until a rollover,
\* and from then on equal, slot for slot, to the value next_features held in
\* an earlier state (the one its last rollover started from): it is only
\* ever promoted, never written directly.
C11_CurrentOnlyPromoted ==
    \/ /\ promoted_from = {}
       /\ staged_features_pda.current_features = NoFeatures
    \/ staged_features_pda.current_features \in promoted_from

\* An instruction has promoted a generation that had features staged.
C11_Witness ==
    /\ InstructionWas
    /\ last.rolled
    /\ staged_features_pda.current_features # NoFeatures
    /\ staged_features_pda.current_features \in promoted_from

\* C12: the stage-feature instruction validates target_epoch against the
\* store its rollover leaves: it succeeds if and only if target_epoch is the
\* post-rollover next_epoch (clock + 1 when the clock has reached the prior
\* next_epoch, the prior next_epoch otherwise) and the post-rollover
\* next_features has an empty slot; a target equal to the pre-rollover
\* next_epoch is rejected once the clock has reached that epoch; a staging
\* that follows a rollover lands in slot 0 of an all-empty set.
C12_ValidatedAfterRollover ==
    CallWas("stage_feature_instruction") =>
        LET reached == clock_sysvar_epoch >= pre.next_epoch
            post_epoch == IF reached THEN clock_sysvar_epoch + 1 ELSE pre.next_epoch
            post_features == IF reached THEN NoFeatures ELSE pre.next_features
        IN  /\ StageAccepted <=>
                  (last.epoch = post_epoch /\ HasEmptySlot(post_features))
            /\ (reached /\ last.epoch = pre.next_epoch) => ~StageAccepted
            /\ (reached /\ StageAccepted) =>
                  staged_features_pda.next_features =
                      [NoFeatures EXCEPT ![1] = last.feature_id]

\* C13: maybe_update is total over the whole epoch range: for every store
\* and every wall_epoch up to the maximum the call completes, a rollover
\* leaves next_epoch = wall_epoch + 1 without wrapping, and next_epoch >
\* current_epoch holds afterwards.
C13_TotalWithoutWrapping ==
    CallWas("maybe_update") =>
        /\ last.result = "Ok"
        /\ last.rolled => staged_features_pda.next_epoch = last.epoch + 1
        /\ (pre.next_epoch > pre.current_epoch \/ last.rolled) =>
              staged_features_pda.next_epoch > staged_features_pda.current_epoch

\* C14: under a clock that never decreases, after every instruction
\* next_epoch is the clock epoch of that instruction plus one and
\* current_epoch is at most that clock epoch.
C14_NextEpochIsClockPlusOne ==
    InstructionWas =>
        /\ staged_features_pda.next_epoch = clock_sysvar_epoch + 1
        /\ staged_features_pda.current_epoch <= clock_sysvar_epoch

Occupied(features) == { i \in Slots : features[i] # Default }

\* C15: every non-empty id in current_features was written by a successful
\* stage_feature call whose target_epoch is the present current_epoch, and
\* the epoch of the rollover that promoted it was at least that target
\* epoch, skipped epochs or not.
C15_CurrentUnderItsTargetEpoch ==
    \A i \in Occupied(staged_features_pda.current_features) :
        /\ current_for[i] = {staged_features_pda.current_epoch}
        /\ promoted_at # {}
        /\ \A at \in promoted_at : at >= staged_features_pda.current_epoch

\* An instruction has promoted staged ids at a clock epoch beyond the epoch
\* they were staged for.
C15_Witness ==
    /\ InstructionWas
    /\ last.rolled
    /\ Occupied(staged_features_pda.current_features) # {}
    /\ \E at \in promoted_at : at > staged_features_pda.current_epoch + 1

\* C16: every id staged for epoch E waits in next_features under
\* next_epoch = E; the first instruction at a clock epoch >= E promotes it
\* to the same slot of current_features, an instruction below E leaves it
\* and current_features where they are, and a rollover keeps nothing of the
\* generation that was current before it.
C16_StagedIdsArePromotedOnce ==
    /\ \A i \in Occupied(staged_features_pda.next_features) :
          staged_for[i] = {staged_features_pda.next_epoch}
    /\ InstructionWas =>
          IF clock_sysvar_epoch >= pre.next_epoch
          THEN /\ staged_features_pda.current_features = pre.next_features
               /\ last.result # "panic" => mid.next_features = NoFeatures
          ELSE /\ staged_features_pda.current_features = pre.current_features
               /\ \A i \in Occupied(pre.next_features) :
                     staged_features_pda.next_features[i] = pre.next_features[i]

\* An instruction, at a clock epoch beyond the one they were staged for, has
\* promoted fewer ids than the generation it replaced held.
C16_Witness ==
    /\ InstructionWas
    /\ last.rolled
    /\ clock_sysvar_epoch > pre.next_epoch
    /\ Occupied(pre.next_features) # {}
    /\ Occupied(pre.next_features) # Occupied(pre.current_features)
    /\ Occupied(pre.next_features) \subseteq Occupied(pre.current_features)
    /\ staged_features_pda.current_features = pre.next_features

GapFree(features) ==
    \A i \in Occupied(features) : \A j \in 1..(i - 1) : j \in Occupied(features)

\* C17: next_features and current_features are gap-free (the occupied
\* slots are a prefix), and as long as no successful call since the last
\* rollover carried the sentinel, next_features holds exactly as many ids
\* as stage_feature calls have succeeded since then.
C17_GapFree ==
    /\ GapFree(staged_features_pda.next_features)
    /\ GapFree(staged_features_pda.current_features)
    /\ staged_calls = staged_ids =>
          Occupied(staged_features_pda.next_features) = 1..staged_calls

\* Three ids are staged behind a promoted generation of two.
C17_Witness ==
    /\ CallWas("stage_feature_instruction")
    /\ StageAccepted
    /\ staged_calls = 3
    /\ staged_ids = 3
    /\ Occupied(staged_features_pda.next_features) = 1..3
    /\ Occupied(staged_features_pda.current_features) = 1..2

\* C18: stage_feature(next_epoch, Pubkey::default()) on a store with an
\* empty slot returns success, leaves the store unchanged and uses no
\* capacity, so successful calls against one next_epoch are not bounded
\* by 8.
C18_SentinelNotValidated ==
    (CallWas("stage_feature") /\ last.feature_id = Default
        /\ last.epoch = pre.next_epoch /\ HasEmptySlot(pre.next_features)) =>
        /\ StageAccepted
        /\ staged_features_pda = pre
        /\ staged_ids = last.ids_before

\* A ninth stage_feature call in a row has succeeded for the same
\* next_epoch.
C18_Witness ==
    /\ CallWas("stage_feature")
    /\ last.feature_id = Default
    /\ last.calls_before = N
    /\ StageAccepted
    /\ staged_calls = N + 1
    /\ staged_features_pda = pre

====
